---- MODULE Spec2Model ----
(***************************************************************************)
(* Model of the solracer_program escrow state machine                      *)
(* (programs/solracer-program/src/lib.rs).                                 *)
(*                                                                         *)
(* One race account (one PDA address) is followed through its life.  Each  *)
(* instruction is one atomic action: the Anchor account checks, the        *)
(* handler body run statement by statement on the in-memory account, and   *)
(* the runtime's commit (on Ok) or discard (on Err) of what the handler    *)
(* wrote.  Rent and transaction fees are not modelled: lamports stand for  *)
(* the balance above them.                                                 *)
(***************************************************************************)
EXTENDS Integers, FiniteSets, Sequences, TLC

\* ---------------------------------------------------------------- bounds
MaxBal == 2          \* initial balance of a funded wallet
MaxFee == 1          \* largest entry_fee_sol passed to create_race
MaxTime == 2         \* finish_time_ms ranges over 1..MaxTime
MaxCoins == 1        \* coins_collected ranges over 0..MaxCoins
MaxClaims == 2       \* successful claim_prize calls followed per race
MaxSettles == 2      \* successful settle_race calls followed per race
LamportBits == 4     \* width of the u64 fields, scaled down

Players == {"alice", "bob", "carol"}
RacePda == "race_pda"
Accounts == Players \cup {RacePda}

U64Mod == 2 ^ LamportBits

Fees == 0..MaxFee
FinishTimes == 1..MaxTime
Coins == 0..MaxCoins
Hashes == {"hash-1"}

\* ------------------------------------------------------------ data types
\* Option<T>
None == [is_some |-> FALSE]
Some(v) == [is_some |-> TRUE, val |-> v]

\* enum RaceStatus
Waiting == "Waiting"
Active == "Active"
Settled == "Settled"

\* struct RaceResult
RaceResult(t, c, h) == [finish_time_ms |-> t, coins_collected |-> c, input_hash |-> h]
Results == {RaceResult(t, c, h) : t \in FinishTimes, c \in Coins, h \in Hashes}

\* enum SolracerError, plus the outcomes of the framework and the runtime
Ok == "Ok"
InvalidRaceStatus == "InvalidRaceStatus"
Player2AlreadySet == "Player2AlreadySet"
PlayerNotInRace == "PlayerNotInRace"
ResultAlreadySubmitted == "ResultAlreadySubmitted"
ResultsNotComplete == "ResultsNotComplete"
NotWinner == "NotWinner"
AccountInUse == "AccountInUse"
AccountNotInitialized == "AccountNotInitialized"
InsufficientFunds == "InsufficientFunds"
ArithmeticOverflow == "ArithmeticOverflow"

\* the race account before create_race has initialised it
Uninit == [initialized |-> FALSE]

VARIABLES
    race,       \* the Race account's data (Uninit before create_race)
    lamports,   \* balance of every wallet and of the race PDA
    last,       \* the last instruction: who sent it, what the handler did
    initial,    \* ghost: the wallets' balances at the start
    paidIn,     \* ghost: lamports transferred into the PDA by create/join
    paidOut,    \* ghost: lamports moved out of the PDA by claim_prize
    settles,    \* ghost: number of successful settle_race calls
    claims,     \* ghost: number of successful claim_prize calls
    twin,       \* the race account of a second run, compared in SpecPair
    log         \* ghost: the calls that succeeded so far, in order

vars == <<race, lamports, last, initial, paidIn, paidOut, settles, claims, twin, log>>

RECURSIVE SumOver(_, _)
SumOver(f, S) ==
    IF S = {} THEN 0
    ELSE LET a == CHOOSE x \in S : TRUE IN f[a] + SumOver(f, S \ {a})

TotalLamports == SumOver(lamports, Accounts)

\* ------------------------------------------------------ ledger primitives
\* system_instruction::transfer invoked by the handler
Transfer(lam, from, to, amount) ==
    IF lam[from] < amount
    THEN [ok |-> FALSE, lam |-> lam]
    ELSE [ok |-> TRUE,
          lam |-> [a \in Accounts |->
                     IF from = to THEN lam[a]
                     ELSE IF a = from THEN lam[a] - amount
                     ELSE IF a = to THEN lam[a] + amount
                     ELSE lam[a]]]

\* what a handler hands back: the in-memory account, the balances, the Result
Ret(r, lam, err) == [race |-> r, lam |-> lam, err |-> err]

\* ---------------------------------------------------------------- handlers
create_race(r, lam, player1, race_id, token_mint, entry_fee_sol, now) ==
    LET r1 == [initialized |-> TRUE,
               race_id |-> race_id,
               token_mint |-> token_mint,
               entry_fee_sol |-> entry_fee_sol,
               player1 |-> player1,
               player2 |-> None,
               status |-> Waiting,
               player1_result |-> None,
               player2_result |-> None,
               winner |-> None,
               escrow_amount |-> entry_fee_sol,
               created_at |-> now]
        t == Transfer(lam, player1, RacePda, entry_fee_sol)
    IN  IF t.ok THEN Ret(r1, t.lam, Ok)
        ELSE Ret(r1, lam, InsufficientFunds)

\* join_race without the escrow_amount increment
join_race_no_escrow(r, lam, player2) ==
    IF r.status # Waiting THEN Ret(r, lam, InvalidRaceStatus)
    ELSE IF r.player2.is_some THEN Ret(r, lam, Player2AlreadySet)
    ELSE
      LET r1 == [r EXCEPT !.player2 = Some(player2),
                          !.status = Active]
          t == Transfer(lam, player2, RacePda, r.entry_fee_sol)
      IN  IF t.ok THEN Ret(r1, t.lam, Ok)
          ELSE Ret(r1, lam, InsufficientFunds)

\* join_race storing the wrong RaceStatus variant
join_race_settled(r, lam, player2) ==
    IF r.status # Waiting THEN Ret(r, lam, InvalidRaceStatus)
    ELSE IF r.player2.is_some THEN Ret(r, lam, Player2AlreadySet)
    ELSE
      LET r1 == [r EXCEPT !.player2 = Some(player2),
                          !.status = Settled,
                          !.escrow_amount = (r.escrow_amount + r.entry_fee_sol) % U64Mod]
          t == Transfer(lam, player2, RacePda, r.entry_fee_sol)
      IN  IF t.ok THEN Ret(r1, t.lam, Ok)
          ELSE Ret(r1, lam, InsufficientFunds)

\* join_race without its two require! checks
join_race_unchecked(r, lam, player2) ==
    LET r1 == [r EXCEPT !.player2 = Some(player2),
                        !.status = Active,
                        !.escrow_amount = (r.escrow_amount + r.entry_fee_sol) % U64Mod]
        t == Transfer(lam, player2, RacePda, r.entry_fee_sol)
    IN  IF t.ok THEN Ret(r1, t.lam, Ok)
        ELSE Ret(r1, lam, InsufficientFunds)

\* join_race that drops the ? after the transfer and so ignores its failure
join_race_ignores_transfer(r, lam, player2) ==
    IF r.status # Waiting THEN Ret(r, lam, InvalidRaceStatus)
    ELSE IF r.player2.is_some THEN Ret(r, lam, Player2AlreadySet)
    ELSE
      LET r1 == [r EXCEPT !.player2 = Some(player2),
                          !.status = Active,
                          !.escrow_amount = (r.escrow_amount + r.entry_fee_sol) % U64Mod]
          t == Transfer(lam, player2, RacePda, r.entry_fee_sol)
      IN  Ret(r1, t.lam, Ok)

\* join_race with its two require! checks in the other order
join_race_checks_swapped(r, lam, player2) ==
    IF r.player2.is_some THEN Ret(r, lam, Player2AlreadySet)
    ELSE IF r.status # Waiting THEN Ret(r, lam, InvalidRaceStatus)
    ELSE
      LET r1 == [r EXCEPT !.player2 = Some(player2),
                          !.status = Active,
                          !.escrow_amount = (r.escrow_amount + r.entry_fee_sol) % U64Mod]
          t == Transfer(lam, player2, RacePda, r.entry_fee_sol)
      IN  IF t.ok THEN Ret(r1, t.lam, Ok)
          ELSE Ret(r1, lam, InsufficientFunds)

\* escrow_amount += entry_fee_sol is u64 arithmetic; it can only wrap (or
\* panic) when the transfer that follows cannot be funded, and the
\* instruction fails either way
join_race(r, lam, player2) ==
    IF r.status # Waiting THEN Ret(r, lam, InvalidRaceStatus)
    ELSE IF r.player2.is_some THEN Ret(r, lam, Player2AlreadySet)
    ELSE
      LET r1 == [r EXCEPT !.player2 = Some(player2),
                          !.status = Active,
                          !.escrow_amount = (r.escrow_amount + r.entry_fee_sol) % U64Mod]
          t == Transfer(lam, player2, RacePda, r.entry_fee_sol)
      IN  IF t.ok THEN Ret(r1, t.lam, Ok)
          ELSE Ret(r1, lam, InsufficientFunds)

\* submit_result without the is_none() checks on the slots
submit_result_overwrite(r, lam, player, finish_time_ms, coins_collected, input_hash) ==
    IF r.status # Active THEN Ret(r, lam, InvalidRaceStatus)
    ELSE
      LET is_player1 == player = r.player1
          is_player2 == IF r.player2.is_some THEN player = r.player2.val ELSE FALSE
          result == RaceResult(finish_time_ms, coins_collected, input_hash)
      IN  IF ~(is_player1 \/ is_player2) THEN Ret(r, lam, PlayerNotInRace)
          ELSE IF is_player1
          THEN Ret([r EXCEPT !.player1_result = Some(result)], lam, Ok)
          ELSE Ret([r EXCEPT !.player2_result = Some(result)], lam, Ok)

\* submit_result storing the result before it checks the slot
submit_result_write_first(r, lam, player, finish_time_ms, coins_collected, input_hash) ==
    IF r.status # Active THEN Ret(r, lam, InvalidRaceStatus)
    ELSE
      LET is_player1 == player = r.player1
          is_player2 == IF r.player2.is_some THEN player = r.player2.val ELSE FALSE
          result == RaceResult(finish_time_ms, coins_collected, input_hash)
      IN  IF ~(is_player1 \/ is_player2) THEN Ret(r, lam, PlayerNotInRace)
          ELSE IF is_player1
          THEN IF r.player1_result.is_some
               THEN Ret([r EXCEPT !.player1_result = Some(result)], lam, ResultAlreadySubmitted)
               ELSE Ret([r EXCEPT !.player1_result = Some(result)], lam, Ok)
          ELSE IF r.player2_result.is_some
               THEN Ret([r EXCEPT !.player2_result = Some(result)], lam, ResultAlreadySubmitted)
               ELSE Ret([r EXCEPT !.player2_result = Some(result)], lam, Ok)

\* submit_result storing the result in the other participant's slot
submit_result_swapped_slots(r, lam, player, finish_time_ms, coins_collected, input_hash) ==
    IF r.status # Active THEN Ret(r, lam, InvalidRaceStatus)
    ELSE
      LET is_player1 == player = r.player1
          is_player2 == IF r.player2.is_some THEN player = r.player2.val ELSE FALSE
          result == RaceResult(finish_time_ms, coins_collected, input_hash)
      IN  IF ~(is_player1 \/ is_player2) THEN Ret(r, lam, PlayerNotInRace)
          ELSE IF is_player1
          THEN IF r.player2_result.is_some
               THEN Ret(r, lam, ResultAlreadySubmitted)
               ELSE Ret([r EXCEPT !.player2_result = Some(result)], lam, Ok)
          ELSE IF r.player1_result.is_some
               THEN Ret(r, lam, ResultAlreadySubmitted)
               ELSE Ret([r EXCEPT !.player1_result = Some(result)], lam, Ok)

\* submit_result that only refuses a Settled race
submit_result_not_settled(r, lam, player, finish_time_ms, coins_collected, input_hash) ==
    IF r.status = Settled THEN Ret(r, lam, InvalidRaceStatus)
    ELSE
      LET is_player1 == player = r.player1
          is_player2 == IF r.player2.is_some THEN player = r.player2.val ELSE FALSE
          result == RaceResult(finish_time_ms, coins_collected, input_hash)
      IN  IF ~(is_player1 \/ is_player2) THEN Ret(r, lam, PlayerNotInRace)
          ELSE IF is_player1
          THEN IF r.player1_result.is_some
               THEN Ret(r, lam, ResultAlreadySubmitted)
               ELSE Ret([r EXCEPT !.player1_result = Some(result)], lam, Ok)
          ELSE IF r.player2_result.is_some
               THEN Ret(r, lam, ResultAlreadySubmitted)
               ELSE Ret([r EXCEPT !.player2_result = Some(result)], lam, Ok)

\* submit_result that tests is_player2 before is_player1
submit_result_player2_first(r, lam, player, finish_time_ms, coins_collected, input_hash) ==
    IF r.status # Active THEN Ret(r, lam, InvalidRaceStatus)
    ELSE
      LET is_player1 == player = r.player1
          is_player2 == IF r.player2.is_some THEN player = r.player2.val ELSE FALSE
          result == RaceResult(finish_time_ms, coins_collected, input_hash)
      IN  IF ~(is_player1 \/ is_player2) THEN Ret(r, lam, PlayerNotInRace)
          ELSE IF is_player2
          THEN IF r.player2_result.is_some
               THEN Ret(r, lam, ResultAlreadySubmitted)
               ELSE Ret([r EXCEPT !.player2_result = Some(result)], lam, Ok)
          ELSE IF r.player1_result.is_some
               THEN Ret(r, lam, ResultAlreadySubmitted)
               ELSE Ret([r EXCEPT !.player1_result = Some(result)], lam, Ok)

\* submit_result whose is_player2 test compares the signer with nothing
submit_result_rejects_player2(r, lam, player, finish_time_ms, coins_collected, input_hash) ==
    IF r.status # Active THEN Ret(r, lam, InvalidRaceStatus)
    ELSE
      LET is_player1 == player = r.player1
          is_player2 == FALSE
          result == RaceResult(finish_time_ms, coins_collected, input_hash)
      IN  IF ~(is_player1 \/ is_player2) THEN Ret(r, lam, PlayerNotInRace)
          ELSE IF is_player1
          THEN IF r.player1_result.is_some
               THEN Ret(r, lam, ResultAlreadySubmitted)
               ELSE Ret([r EXCEPT !.player1_result = Some(result)], lam, Ok)
          ELSE IF r.player2_result.is_some
               THEN Ret(r, lam, ResultAlreadySubmitted)
               ELSE Ret([r EXCEPT !.player2_result = Some(result)], lam, Ok)

submit_result(r, lam, player, finish_time_ms, coins_collected, input_hash) ==
    IF r.status # Active THEN Ret(r, lam, InvalidRaceStatus)
    ELSE
      LET is_player1 == player = r.player1
          is_player2 == IF r.player2.is_some THEN player = r.player2.val ELSE FALSE
          result == RaceResult(finish_time_ms, coins_collected, input_hash)
      IN  IF ~(is_player1 \/ is_player2) THEN Ret(r, lam, PlayerNotInRace)
          ELSE IF is_player1
          THEN IF r.player1_result.is_some
               THEN Ret(r, lam, ResultAlreadySubmitted)
               ELSE Ret([r EXCEPT !.player1_result = Some(result)], lam, Ok)
          ELSE IF r.player2_result.is_some
               THEN Ret(r, lam, ResultAlreadySubmitted)
               ELSE Ret([r EXCEPT !.player2_result = Some(result)], lam, Ok)

\* the winner expression with > in place of >= in the coins tie-break
DetermineWinner_strict(r) ==
    LET player1_result == r.player1_result.val
        player2_result == r.player2_result.val
    IN  IF player1_result.finish_time_ms < player2_result.finish_time_ms
        THEN r.player1
        ELSE IF player2_result.finish_time_ms < player1_result.finish_time_ms
        THEN r.player2.val
        ELSE IF player1_result.coins_collected > player2_result.coins_collected
             THEN r.player1
             ELSE r.player2.val

\* the winner expression of settle_race
DetermineWinner(r) ==
    LET player1_result == r.player1_result.val
        player2_result == r.player2_result.val
    IN  IF player1_result.finish_time_ms < player2_result.finish_time_ms
        THEN r.player1
        ELSE IF player2_result.finish_time_ms < player1_result.finish_time_ms
        THEN r.player2.val
        ELSE IF player1_result.coins_collected >= player2_result.coins_collected
             THEN r.player1
             ELSE r.player2.val

\* settle_race that forgets to move status to Settled
settle_race_keeps_active(r, lam, signer) ==
    IF r.status # Active THEN Ret(r, lam, InvalidRaceStatus)
    ELSE IF ~(r.player1_result.is_some /\ r.player2_result.is_some)
    THEN Ret(r, lam, ResultsNotComplete)
    ELSE Ret([r EXCEPT !.winner = Some(DetermineWinner(r))], lam, Ok)

\* settle_race with its two require! checks in the other order
settle_race_checks_swapped(r, lam, signer) ==
    IF ~(r.player1_result.is_some /\ r.player2_result.is_some)
    THEN Ret(r, lam, ResultsNotComplete)
    ELSE IF r.status # Active THEN Ret(r, lam, InvalidRaceStatus)
    ELSE Ret([r EXCEPT !.winner = Some(DetermineWinner(r)),
                       !.status = Settled], lam, Ok)

\* settle_race that lets a participant who sends it win an exact tie
settle_race_caller_tiebreak(r, lam, signer) ==
    IF r.status # Active THEN Ret(r, lam, InvalidRaceStatus)
    ELSE IF ~(r.player1_result.is_some /\ r.player2_result.is_some)
    THEN Ret(r, lam, ResultsNotComplete)
    ELSE LET tie == /\ r.player1_result.val.finish_time_ms = r.player2_result.val.finish_time_ms
                    /\ r.player1_result.val.coins_collected = r.player2_result.val.coins_collected
             w == IF tie /\ signer = r.player2.val THEN signer ELSE DetermineWinner(r)
         IN  Ret([r EXCEPT !.winner = Some(w), !.status = Settled], lam, Ok)

\* settle_race that also pays the prize out to the winner
settle_race_pays_winner(r, lam, signer) ==
    IF r.status # Active THEN Ret(r, lam, InvalidRaceStatus)
    ELSE IF ~(r.player1_result.is_some /\ r.player2_result.is_some)
    THEN Ret(r, lam, ResultsNotComplete)
    ELSE LET w == DetermineWinner(r)
         IN  Ret([r EXCEPT !.winner = Some(w), !.status = Settled, !.escrow_amount = 0],
                 [lam EXCEPT ![RacePda] = @ - r.escrow_amount,
                             ![w] = lam[w] + r.escrow_amount],
                 Ok)

\* settle_race that settles on one result: the only participant who
\* submitted wins by forfeit
settle_race_forfeit(r, lam, signer) ==
    IF r.status # Active THEN Ret(r, lam, InvalidRaceStatus)
    ELSE IF ~(r.player1_result.is_some \/ r.player2_result.is_some)
    THEN Ret(r, lam, ResultsNotComplete)
    ELSE LET w == IF ~r.player2_result.is_some THEN r.player1
                  ELSE IF ~r.player1_result.is_some THEN r.player2.val
                  ELSE DetermineWinner(r)
         IN  Ret([r EXCEPT !.winner = Some(w), !.status = Settled], lam, Ok)

settle_race(r, lam, signer) ==
    IF r.status # Active THEN Ret(r, lam, InvalidRaceStatus)
    ELSE IF ~(r.player1_result.is_some /\ r.player2_result.is_some)
    THEN Ret(r, lam, ResultsNotComplete)
    ELSE Ret([r EXCEPT !.winner = Some(DetermineWinner(r)),
                       !.status = Settled], lam, Ok)

\* claim_prize without "race.escrow_amount = 0"
claim_prize_keeps_escrow(r, lam, winner) ==
    IF r.status # Settled THEN Ret(r, lam, InvalidRaceStatus)
    ELSE IF r.winner # Some(winner) THEN Ret(r, lam, NotWinner)
    ELSE
      LET prize_amount == r.escrow_amount
      IN  IF lam[RacePda] < prize_amount \/ lam[winner] + prize_amount >= U64Mod
          THEN Ret(r, lam, ArithmeticOverflow)
          ELSE Ret(r,
                   [lam EXCEPT ![RacePda] = @ - prize_amount,
                               ![winner] = lam[winner] + prize_amount],
                   Ok)

\* claim_prize that credits the winner without debiting the PDA
claim_prize_no_debit(r, lam, winner) ==
    IF r.status # Settled THEN Ret(r, lam, InvalidRaceStatus)
    ELSE IF r.winner # Some(winner) THEN Ret(r, lam, NotWinner)
    ELSE
      LET prize_amount == r.escrow_amount
      IN  IF lam[winner] + prize_amount >= U64Mod
          THEN Ret(r, lam, ArithmeticOverflow)
          ELSE Ret([r EXCEPT !.escrow_amount = 0],
                   [lam EXCEPT ![winner] = lam[winner] + prize_amount],
                   Ok)

\* claim_prize without the "caller is the winner" check
claim_prize_anyone(r, lam, winner) ==
    IF r.status # Settled THEN Ret(r, lam, InvalidRaceStatus)
    ELSE
      LET prize_amount == r.escrow_amount
      IN  IF lam[RacePda] < prize_amount \/ lam[winner] + prize_amount >= U64Mod
          THEN Ret(r, lam, ArithmeticOverflow)
          ELSE Ret([r EXCEPT !.escrow_amount = 0],
                   [lam EXCEPT ![RacePda] = @ - prize_amount,
                               ![winner] = lam[winner] + prize_amount],
                   Ok)

\* the two lamport updates are u64 arithmetic: out of range they panic or
\* leave the balances unbalanced, and the instruction fails
claim_prize(r, lam, winner) ==
    IF r.status # Settled THEN Ret(r, lam, InvalidRaceStatus)
    ELSE IF r.winner # Some(winner) THEN Ret(r, lam, NotWinner)
    ELSE
      LET prize_amount == r.escrow_amount
      IN  IF lam[RacePda] < prize_amount \/ lam[winner] + prize_amount >= U64Mod
          THEN Ret(r, lam, ArithmeticOverflow)
          ELSE Ret([r EXCEPT !.escrow_amount = 0],
                   [lam EXCEPT ![RacePda] = @ - prize_amount,
                               ![winner] = lam[winner] + prize_amount],
                   Ok)

\* ------------------------------------------------------ instruction dispatch
\* Account<'info, Race> without init: the account must hold a Race
Loaded(r, lam, h) ==
    IF r.initialized THEN h ELSE Ret(r, lam, AccountNotInitialized)

\* #[account(init, ...)]: the address must not be in use
Fresh(r, lam, h) ==
    IF r.initialized THEN Ret(r, lam, AccountInUse) ELSE h

\* a successful call as the log keeps it; SettleRace names no signer account
LogEntry(op, signer) ==
    [op |-> op, signer |-> IF op = "settle_race" THEN "anyone" ELSE signer]

\* the instruction's effects are kept on Ok and dropped on Err
Commit(op, signer, h) ==
    /\ race' = IF h.err = Ok THEN h.race ELSE race
    /\ lamports' = IF h.err = Ok THEN h.lam ELSE lamports
    /\ last' = [op |-> op, signer |-> signer, err |-> h.err,
                pre |-> race, preLam |-> lamports,
                out |-> h.race, outLam |-> h.lam]
    /\ log' = IF h.err = Ok THEN Append(log, LogEntry(op, signer)) ELSE log

RaceIds == {"race-1"}
Mints == {"mint-1"}
Clock == {1}

\* two funded wallets, one empty wallet, and the PDA not yet created
StartLamports ==
    [a \in Accounts |-> IF a \in {"alice", "bob"} THEN MaxBal ELSE 0]

Init ==
    /\ race = Uninit
    /\ lamports = StartLamports
    /\ last = [op |-> "none", signer |-> RacePda, err |-> Ok,
               pre |-> Uninit, preLam |-> lamports,
               out |-> Uninit, outLam |-> lamports]
    /\ initial = lamports
    /\ paidIn = 0
    /\ paidOut = 0
    /\ settles = 0
    /\ claims = 0
    /\ twin = Uninit
    /\ log = << >>

CreateRace ==
    \E p \in Players, id \in RaceIds, m \in Mints, fee \in Fees, now \in Clock :
      LET h == Fresh(race, lamports, create_race(race, lamports, p, id, m, fee, now))
      IN  /\ Commit("create_race", p, h)
          /\ paidIn' = IF h.err = Ok THEN paidIn + (h.lam[RacePda] - lamports[RacePda]) ELSE paidIn
          /\ UNCHANGED <<initial, paidOut, settles, claims, twin>>

JoinRace ==
    \E p \in Players :
      LET h == Loaded(race, lamports, join_race(race, lamports, p))
      IN  /\ Commit("join_race", p, h)
          /\ paidIn' = IF h.err = Ok THEN paidIn + (h.lam[RacePda] - lamports[RacePda]) ELSE paidIn
          /\ UNCHANGED <<initial, paidOut, settles, claims, twin>>

\* one submit_result instruction, signed by p
Submit(p, t, c, hs) ==
    LET h == Loaded(race, lamports, submit_result(race, lamports, p, t, c, hs))
    IN  /\ Commit("submit_result", p, h)
        /\ UNCHANGED <<initial, paidIn, paidOut, settles, claims, twin>>

SubmitResult ==
    \E p \in Players, t \in FinishTimes, c \in Coins, hs \in Hashes : Submit(p, t, c, hs)

\* one settle_race instruction, sent by p
Settle(p) ==
    LET h == Loaded(race, lamports, settle_race(race, lamports, p))
    IN  /\ settles < MaxSettles
        /\ Commit("settle_race", p, h)
        /\ settles' = IF h.err = Ok THEN settles + 1 ELSE settles
        /\ UNCHANGED <<initial, paidIn, paidOut, claims, twin>>

SettleRace == \E p \in Players : Settle(p)

\* one claim_prize instruction, signed by p
Claim(p) ==
    LET h == Loaded(race, lamports, claim_prize(race, lamports, p))
    IN  /\ claims < MaxClaims
        /\ Commit("claim_prize", p, h)
        /\ paidOut' = IF h.err = Ok THEN paidOut + (lamports[RacePda] - h.lam[RacePda]) ELSE paidOut
        /\ claims' = IF h.err = Ok THEN claims + 1 ELSE claims
        /\ UNCHANGED <<initial, paidIn, settles, twin>>

ClaimPrize == \E p \in Players : Claim(p)

Next ==
    \/ CreateRace
    \/ JoinRace
    \/ SubmitResult
    \/ SettleRace
    \/ ClaimPrize

Spec == Init /\ [][Next]_vars

TypeOK ==
    /\ lamports \in [Accounts -> 0..(U64Mod - 1)]
    /\ race.initialized => race.escrow_amount \in 0..(U64Mod - 1)
\* ------------------------------------------------------------ shorthands
Fee == race.entry_fee_sol
P1 == race.player1
P2 == race.player2.val
BothResults(r) == r.player1_result.is_some /\ r.player2_result.is_some
Moved == last.preLam[RacePda] - lamports[RacePda]

\* ---------------------------------------------------------------- claims

\* C1: in every state of an existing race escrow_amount is what create_race
\* and join_race transferred into the PDA minus what claim_prize paid out;
\* it is entry_fee while Waiting, 2 x entry_fee while Active, 0 after a
\* successful claim, and never negative.
C1_EscrowAccounting ==
    race.initialized =>
      /\ race.escrow_amount = paidIn - paidOut
      /\ lamports[RacePda] = paidIn - paidOut
      /\ race.status = Waiting => race.escrow_amount = Fee
      /\ race.status = Active => race.escrow_amount = 2 * Fee
      /\ claims > 0 => race.escrow_amount = 0
      /\ race.escrow_amount >= 0

C1_Witness ==
    /\ race.initialized
    /\ Fee > 0
    /\ claims > 0
    /\ paidIn = 2 * Fee
    /\ paidOut = 2 * Fee
    /\ race.escrow_amount = 0

\* C2: the prize is released exactly once: the first successful claim_prize,
\* sent by the stored winner, moves the full escrow_amount from the PDA to
\* the winner and zeroes escrow_amount; every later claim_prize call moves
\* nothing; the total paid out never exceeds 2 x entry_fee.
C2_PrizeReleasedOnce ==
    /\ race.initialized => paidOut <= 2 * Fee
    /\ (last.op = "claim_prize" /\ last.err = Ok) =>
         /\ last.pre.winner = Some(last.signer)
         /\ Moved = last.pre.escrow_amount
         /\ lamports[last.signer] = last.preLam[last.signer] + last.pre.escrow_amount
         /\ race.escrow_amount = 0
         /\ claims = 1 => Moved = 2 * Fee
         /\ claims > 1 => Moved = 0
    /\ (last.op = "claim_prize" /\ last.err # Ok) => lamports = last.preLam

C2_Witness ==
    /\ last.op = "claim_prize"
    /\ last.err = Ok
    /\ claims = 2
    /\ Fee > 0
    /\ paidOut = 2 * Fee
    /\ Moved = 0

\* C3: the sum of all balances (wallets plus PDA) is the same in every state,
\* whether the last call succeeded or failed, and after a complete race
\* between two distinct participants the winner holds its initial balance
\* plus entry_fee, the loser its initial balance minus entry_fee, and
\* escrow_amount is 0.
C3_FundsConserved ==
    /\ TotalLamports = SumOver(initial, Accounts)
    /\ SumOver(last.outLam, Accounts) = SumOver(last.preLam, Accounts)
    /\ (race.initialized /\ claims > 0 /\ P1 # P2) =>
         LET w == race.winner.val
             l == IF w = P1 THEN P2 ELSE P1
         IN  /\ lamports[w] = initial[w] + Fee
             /\ lamports[l] = initial[l] - Fee
             /\ race.escrow_amount = 0
             /\ \A o \in Players \ {w, l} : lamports[o] = initial[o]

C3_Witness ==
    /\ race.initialized
    /\ claims > 0
    /\ P1 # P2
    /\ Fee > 0
    /\ lamports[race.winner.val] = initial[race.winner.val] + Fee
    /\ race.escrow_amount = 0

\* one step of the status field
C4_StatusStep ==
    /\ race.initialized => race'.initialized
    /\ (~race.initialized /\ race'.initialized) => race'.status = Waiting
    /\ (race.initialized /\ race'.status # race.status) =>
         \/ /\ race.status = Waiting
            /\ race'.status = Active
            /\ last'.op = "join_race"
            /\ last'.err = Ok
         \/ /\ race.status = Active
            /\ race'.status = Settled
            /\ last'.op = "settle_race"
            /\ last'.err = Ok

\* C4: status only moves Waiting -> Active (by a successful join_race) and
\* Active -> Settled (by a successful settle_race); a new race starts
\* Waiting, and no step moves status backwards, skips Active or leaves
\* Settled.
C4_StatusMonotonic == [][C4_StatusStep]_vars

C4_Witness ==
    /\ race.initialized
    /\ race.status = Settled
    /\ last.op # "settle_race"

\* one step of the winner field
C5_WinnerStep ==
    /\ (race'.initialized /\ race'.status \in {Waiting, Active}) => race'.winner = None
    /\ (race'.initialized /\ race'.status = Settled) => race'.winner.is_some
    /\ (race.initialized /\ race'.winner # race.winner) =>
         /\ race.winner = None
         /\ last'.op = "settle_race"
         /\ last'.err = Ok
         /\ race.status = Active
         /\ race'.status = Settled
         /\ BothResults(race)
         /\ BothResults(race')

\* C5: winner is absent while status is Waiting or Active; it is written only
\* by the settle_race step that moves status from Active to Settled, with
\* both results present; once set it never changes.
C5_WinnerSetOnce == [][C5_WinnerStep]_vars

C5_Witness ==
    /\ race.initialized
    /\ race.winner.is_some
    /\ last.op = "claim_prize"
    /\ last.err = Ok

\* C6: the stored winner of a settled race is the participant with the
\* strictly lower finish_time; on equal finish times it is participant two
\* only when its coins_collected is strictly greater, and participant one
\* otherwise (an exact tie included).
C6_WinnerRule ==
    (race.initialized /\ race.status = Settled) =>
      LET r1 == race.player1_result.val
          r2 == race.player2_result.val
      IN  /\ r1.finish_time_ms < r2.finish_time_ms => race.winner = Some(P1)
          /\ r2.finish_time_ms < r1.finish_time_ms => race.winner = Some(P2)
          /\ (r1.finish_time_ms = r2.finish_time_ms
                /\ r2.coins_collected > r1.coins_collected) => race.winner = Some(P2)
          /\ (r1.finish_time_ms = r2.finish_time_ms
                /\ r2.coins_collected <= r1.coins_collected) => race.winner = Some(P1)

C6_Witness ==
    /\ race.initialized
    /\ race.status = Settled
    /\ P1 # P2
    /\ race.player1_result.val.finish_time_ms = race.player2_result.val.finish_time_ms
    /\ race.player1_result.val.coins_collected = race.player2_result.val.coins_collected
    /\ race.winner = Some(P1)

\* ------------------------------------------------ two runs of the same race
\* Two runs of one race (same participants, same fee) after create_race and
\* join_race have succeeded in both.  submit_result and settle_race are then
\* sent to either run by any signer, in any order; a participant reports the
\* same result in both runs, so that the two runs store the same results.
Runs == {"A", "B"}
RaceOf(run) == IF run = "A" THEN race ELSE twin
OtherRun(run) == IF run = "A" THEN "B" ELSE "A"

\* what participant p reports in this run agrees with what the other run holds
SameReport(run, p, result) ==
    LET o == RaceOf(OtherRun(run))
    IN  /\ (p = o.player1 /\ o.player1_result.is_some) => o.player1_result.val = result
        /\ (p = o.player2.val /\ o.player2_result.is_some) => o.player2_result.val = result

InitPair ==
    \E fee \in Fees, id \in RaceIds, m \in Mints, now \in Clock :
      LET lam0 == StartLamports
          c == Fresh(Uninit, lam0, create_race(Uninit, lam0, "alice", id, m, fee, now))
          j == Loaded(c.race, c.lam, join_race(c.race, c.lam, "bob"))
      IN  /\ c.err = Ok
          /\ j.err = Ok
          /\ race = j.race
          /\ twin = j.race
          /\ lamports = j.lam
          /\ last = [op |-> "join_race", signer |-> "bob", err |-> Ok,
                     pre |-> c.race, preLam |-> c.lam,
                     out |-> j.race, outLam |-> j.lam]
          /\ initial = lam0
          /\ paidIn = 2 * fee
          /\ paidOut = 0
          /\ settles = 0
          /\ claims = 0
          /\ log = << LogEntry("create_race", "alice"), LogEntry("join_race", "bob") >>

CommitRun(run, op, signer, h) ==
    /\ race' = IF run = "A" /\ h.err = Ok THEN h.race ELSE race
    /\ twin' = IF run = "B" /\ h.err = Ok THEN h.race ELSE twin
    /\ last' = [op |-> op, signer |-> signer, err |-> h.err,
                pre |-> RaceOf(run), preLam |-> lamports,
                out |-> h.race, outLam |-> h.lam]
    /\ UNCHANGED <<lamports, initial, paidIn, paidOut, settles, claims, log>>

PairSubmitResult ==
    \E run \in Runs, p \in Players, t \in FinishTimes, c \in Coins, hs \in Hashes :
      LET r == RaceOf(run)
          h == Loaded(r, lamports, submit_result(r, lamports, p, t, c, hs))
      IN  /\ SameReport(run, p, RaceResult(t, c, hs))
          /\ CommitRun(run, "submit_result", p, h)

PairSettleRace ==
    \E run \in Runs, p \in Players :
      LET r == RaceOf(run)
          h == Loaded(r, lamports, settle_race(r, lamports, p))
      IN  CommitRun(run, "settle_race", p, h)

NextPair ==
    \/ PairSubmitResult
    \/ PairSettleRace

SpecPair == InitPair /\ [][NextPair]_vars

\* C7: settle_race succeeds for every signer once the race is Active with
\* both results stored, and two runs that stored the same result for
\* participant one and the same result for participant two have the same
\* winner, whoever sent settle_race and whichever result was submitted first.
C7_SettlementPure ==
    /\ (last.op = "settle_race" /\ last.pre.status = Active /\ BothResults(last.pre)) =>
          last.err = Ok
    /\ (/\ race.status = Settled
        /\ twin.status = Settled
        /\ race.player1_result = twin.player1_result
        /\ race.player2_result = twin.player2_result) => race.winner = twin.winner

C7_Witness ==
    /\ race.status = Settled
    /\ twin.status = Settled
    /\ race.player1_result = twin.player1_result
    /\ race.player2_result = twin.player2_result
    /\ race.player1_result.val.finish_time_ms = race.player2_result.val.finish_time_ms
    /\ race.player1_result.val.coins_collected = race.player2_result.val.coins_collected
    /\ last.op = "settle_race"
    /\ last.signer = "carol"
    /\ last.err = Ok
    /\ race.winner = twin.winner

\* the signer of the last call was a participant whose own slot was populated
SlotTaken(r, p) ==
    /\ r.initialized
    /\ \/ p = r.player1 /\ r.player1_result.is_some
       \/ /\ r.player2.is_some
          /\ p = r.player2.val
          /\ p # r.player1
          /\ r.player2_result.is_some

\* a populated result slot is the same after the step
C8_SlotsKept ==
    /\ (race.initialized /\ race.player1_result.is_some) =>
          race'.player1_result = race.player1_result
    /\ (race.initialized /\ race.player2_result.is_some) =>
          race'.player2_result = race.player2_result

\* C8 as stated: every submit_result by a participant whose slot is populated
\* fails with ResultAlreadySubmitted.  (Violated on a Settled race, where the
\* status check of submit_result answers first with InvalidRaceStatus.)
C8_Original ==
    (last.op = "submit_result" /\ SlotTaken(last.pre, last.signer)) =>
       last.err = ResultAlreadySubmitted

\* C8 (amended): a submit_result by a participant whose slot is populated
\* always fails and stores nothing: with ResultAlreadySubmitted while the
\* race is Active, with InvalidRaceStatus once it is Settled; and a result
\* slot, once set, keeps its finish_time, coins_collected and input_hash in
\* every later step.
C8_ResultWriteOnce ==
    /\ [](  (last.op = "submit_result" /\ SlotTaken(last.pre, last.signer)) =>
              /\ last.pre.status = Active => last.err = ResultAlreadySubmitted
              /\ last.pre.status = Settled => last.err = InvalidRaceStatus
              /\ last.err # Ok
              /\ race = last.pre )
    /\ [][C8_SlotsKept]_vars

C8_Witness ==
    /\ last.op = "submit_result"
    /\ SlotTaken(last.pre, last.signer)
    /\ last.pre.status = Active
    /\ last.err = ResultAlreadySubmitted
    /\ BothResults(race)

PreconditionErrors ==
    {InvalidRaceStatus, Player2AlreadySet, PlayerNotInRace,
     ResultAlreadySubmitted, ResultsNotComplete, NotWinner}

\* C9: a join_race, submit_result, settle_race or claim_prize that fails one
\* of its require! checks has written nothing: the account and the balances
\* the handler returns, and the ones stored afterwards, are those from
\* before the call.
C9_FailedCallWritesNothing ==
    (last.op \in {"join_race", "submit_result", "settle_race", "claim_prize"}
       /\ last.err \in PreconditionErrors) =>
      /\ last.out = last.pre
      /\ last.outLam = last.preLam
      /\ race = last.pre
      /\ lamports = last.preLam

C9_Witness ==
    /\ last.op = "submit_result"
    /\ last.err = ResultAlreadySubmitted
    /\ race = last.pre
    /\ race.escrow_amount > 0

\* C10: settle_race on an Active race with an empty result slot fails with
\* ResultsNotComplete, settle_race on a Settled or Waiting race fails with
\* InvalidRaceStatus, and settle_race succeeds at most once per race.
C10_SettleErrors ==
    /\ (last.op = "settle_race" /\ last.pre.initialized) =>
         /\ (last.pre.status = Active /\ ~BothResults(last.pre)) =>
               last.err = ResultsNotComplete
         /\ last.pre.status \in {Settled, Waiting} => last.err = InvalidRaceStatus
    /\ settles <= 1

C10_Witness ==
    /\ last.op = "settle_race"
    /\ last.pre.initialized
    /\ last.pre.status = Settled
    /\ last.err = InvalidRaceStatus
    /\ settles = 1

\* player1 and, once joined, player2
Participants(r) ==
    {r.player1} \cup (IF r.player2.is_some THEN {r.player2.val} ELSE {})

\* C11: claim_prize sent by anyone but the stored winner of a Settled race
\* fails with NotWinner, claim_prize on a race that is not Settled fails with
\* InvalidRaceStatus, and in both cases the PDA's balance and escrow_amount
\* are what they were.
C11_OnlyWinnerClaims ==
    (last.op = "claim_prize" /\ last.pre.initialized) =>
      /\ (last.pre.status = Settled /\ last.pre.winner # Some(last.signer)) =>
            last.err = NotWinner
      /\ last.pre.status # Settled => last.err = InvalidRaceStatus
      /\ last.err = Ok => last.pre.winner = Some(last.signer)
      /\ last.err \in {NotWinner, InvalidRaceStatus} =>
            /\ lamports = last.preLam
            /\ last.outLam = last.preLam
            /\ race.escrow_amount = last.pre.escrow_amount
            /\ last.out.escrow_amount = last.pre.escrow_amount

C11_Witness ==
    /\ last.op = "claim_prize"
    /\ last.pre.initialized
    /\ last.pre.status = Settled
    /\ last.signer \in {P1, P2}
    /\ last.err = NotWinner
    /\ race.escrow_amount > 0
    /\ lamports[RacePda] = race.escrow_amount

\* C12: submit_result succeeds only on an Active race and only for its
\* player1 or player2, and it fills the signer's own slot and nothing else:
\* on an Active race a signer who is neither participant gets PlayerNotInRace,
\* on a Waiting or Settled race every signer gets InvalidRaceStatus, and a
\* slot is only ever filled by a call its own participant signed.
C12_SubmitStep ==
    /\ (race.initialized /\ race'.player1_result # race.player1_result) =>
          /\ last'.op = "submit_result"
          /\ last'.signer = race.player1
          /\ race'.player2_result = race.player2_result
    /\ (race.initialized /\ race'.player2_result # race.player2_result) =>
          /\ last'.op = "submit_result"
          /\ race.player2 = Some(last'.signer)
          /\ race'.player1_result = race.player1_result
    /\ (last'.op = "submit_result" /\ race.initialized) =>
          /\ last'.err = Ok =>
                /\ race.status = Active
                /\ last'.signer \in Participants(race)
                /\ \/ race'.player1_result # race.player1_result
                   \/ race'.player2_result # race.player2_result
          /\ (race.status = Active
                /\ last'.signer \notin Participants(race)) =>
                last'.err = PlayerNotInRace
          /\ race.status \in {Waiting, Settled} => last'.err = InvalidRaceStatus

C12_SubmitOwnSlot == [][C12_SubmitStep]_vars

C12_Witness ==
    /\ race.initialized
    /\ race.player2.is_some
    /\ P1 # P2
    /\ last.op = "submit_result"
    /\ last.err = Ok
    /\ last.signer = P2
    /\ race.player2_result.is_some
    /\ ~race.player1_result.is_some

\* positions in the log of the successful calls of one instruction
LogOf(op) == {i \in 1..Len(log) : log[i].op = op}
LogOfBy(op, p) == {i \in 1..Len(log) : log[i].op = op /\ log[i].signer = p}

\* C13: at most one join_race ever succeeds: the one that does finds the race
\* Waiting with no player2, stores its signer as player2, moves status to
\* Active, adds entry_fee_sol to escrow_amount and pays entry_fee_sol; every
\* other attempt fails and debits nobody, and player2 stays the signer of
\* that one join.
C13_OneJoin ==
    /\ Cardinality(LogOf("join_race")) <= 1
    /\ (race.initialized /\ race.player2.is_some) =>
          \E i \in LogOf("join_race") : race.player2 = Some(log[i].signer)
    /\ (race.initialized /\ ~race.player2.is_some) => LogOf("join_race") = {}
    /\ (last.op = "join_race" /\ last.err = Ok) =>
          /\ last.pre.status = Waiting
          /\ last.pre.player2 = None
          /\ race.player2 = Some(last.signer)
          /\ race.status = Active
          /\ race.escrow_amount = last.pre.escrow_amount + Fee
          /\ lamports[last.signer] = last.preLam[last.signer] - Fee
          /\ lamports[RacePda] = last.preLam[RacePda] + Fee
    /\ (last.op = "join_race" /\ last.pre.initialized /\ last.pre.player2.is_some) =>
          last.err # Ok
    /\ (last.op = "join_race" /\ last.err # Ok) =>
          /\ lamports = last.preLam
          /\ race = last.pre

C13_Witness ==
    /\ last.op = "join_race"
    /\ last.pre.initialized
    /\ last.pre.player2.is_some
    /\ last.signer \notin Participants(last.pre)
    /\ last.preLam[last.signer] >= last.pre.entry_fee_sol
    /\ last.pre.entry_fee_sol > 0
    /\ last.err # Ok
    /\ Cardinality(LogOf("join_race")) = 1

\* a submit_result signed by p that succeeds
SubmitOk(p) ==
    \E t \in FinishTimes, c \in Coins, hs \in Hashes :
      /\ Loaded(race, lamports, submit_result(race, lamports, p, t, c, hs)).err = Ok
      /\ Submit(p, t, c, hs)

\* C14: the successful calls on a race come in the order create_race,
\* join_race, the two submit_result, settle_race, claim_prize: no
\* submit_result succeeds before a join_race has, settle_race succeeds only
\* after a submit_result of each participant has, claim_prize only after
\* settle_race has; and the two submits can succeed in either order (while
\* the race is Active, a participant with an empty slot can submit whatever
\* the other has done).
C14_OperationOrder ==
    /\ \A i \in 1..Len(log) :
         /\ log[i].op = "create_race" => i = 1
         /\ log[i].op = "join_race" => i = 2 /\ log[1].op = "create_race"
         /\ log[i].op = "submit_result" =>
               /\ \E j \in LogOf("join_race") : j < i
               /\ \A j \in LogOf("settle_race") : i < j
         /\ log[i].op = "settle_race" =>
               /\ \E j \in LogOfBy("submit_result", P1) : j < i
               /\ \E j \in LogOfBy("submit_result", P2) : j < i
               /\ P1 # P2
               /\ \A j \in LogOf("claim_prize") : i < j
         /\ log[i].op = "claim_prize" => \E j \in LogOf("settle_race") : j < i
    /\ (race.initialized /\ race.status = Active /\ P1 # P2) =>
         /\ ~race.player1_result.is_some => ENABLED SubmitOk(P1)
         /\ ~race.player2_result.is_some => ENABLED SubmitOk(P2)

C14_Witness ==
    /\ Len(log) = 6
    /\ log[3] = LogEntry("submit_result", P2)
    /\ log[4] = LogEntry("submit_result", P1)
    /\ log[5].op = "settle_race"
    /\ log[6].op = "claim_prize"

\* C15: the PDA's balance grows only in create_race and join_race and
\* shrinks only in claim_prize; a submit_result or a settle_race, whether it
\* succeeds or fails, leaves escrow_amount, the PDA's balance and every
\* wallet's balance as they were.
C15_OnlyCreateJoinClaimMoveFunds ==
    /\ lamports[RacePda] > last.preLam[RacePda] => last.op \in {"create_race", "join_race"}
    /\ lamports[RacePda] < last.preLam[RacePda] => last.op = "claim_prize"
    /\ last.op \in {"submit_result", "settle_race"} =>
         /\ lamports = last.preLam
         /\ last.outLam = last.preLam
         /\ last.pre.initialized =>
              /\ race.escrow_amount = last.pre.escrow_amount
              /\ last.out.escrow_amount = last.pre.escrow_amount

C15_Witness ==
    /\ last.op = "settle_race"
    /\ last.err = Ok
    /\ race.escrow_amount > 0
    /\ lamports[RacePda] = race.escrow_amount
    /\ lamports = last.preLam

\* C16: create_race and join_race are all-or-nothing about the fee: when the
\* signer cannot fund the entry_fee_sol transfer the call fails with nothing
\* stored, although the handler had written the account before the transfer;
\* after such a join_race the race is still Waiting, without player2, with
\* escrow_amount = entry_fee_sol.
C16_FeeAllOrNothing ==
    /\ (/\ last.op = "join_race"
        /\ last.pre.initialized
        /\ last.pre.status = Waiting
        /\ last.preLam[last.signer] < last.pre.entry_fee_sol) =>
          /\ last.err = InsufficientFunds
          /\ last.out.player2 = Some(last.signer)
          /\ last.out.status = Active
          /\ race = last.pre
          /\ lamports = last.preLam
          /\ race.status = Waiting
          /\ race.player2 = None
          /\ race.escrow_amount = race.entry_fee_sol
    /\ (/\ last.op = "create_race"
        /\ ~last.pre.initialized
        /\ last.out.initialized
        /\ last.preLam[last.signer] < last.out.entry_fee_sol) =>
          /\ last.err = InsufficientFunds
          /\ race = Uninit
          /\ lamports = last.preLam
    /\ (last.op \in {"create_race", "join_race"} /\ last.err = Ok) =>
          /\ lamports[RacePda] = last.preLam[RacePda] + race.entry_fee_sol
          /\ race = last.out

C16_Witness ==
    /\ last.op = "join_race"
    /\ last.err = InsufficientFunds
    /\ last.out.status = Active
    /\ race.status = Waiting
    /\ race.player2 = None
    /\ race.escrow_amount = race.entry_fee_sol
    /\ race.entry_fee_sol > 0

\* the race holds stakes that no result pair can release yet
Locked(r) ==
    /\ r.initialized
    /\ \/ r.status = Waiting
       \/ r.status = Active /\ ~BothResults(r)

\* one step from a race that is Waiting, or Active with an empty slot
C17_LockedStep ==
    Locked(race) =>
      /\ lamports'[RacePda] >= lamports[RacePda]
      /\ race'.escrow_amount >= race.escrow_amount
      /\ (race.status = Active /\ ~BothResults(race')) =>
            /\ race'.status = Active
            /\ race'.escrow_amount = 2 * race'.entry_fee_sol
            /\ lamports'[RacePda] = 2 * race'.entry_fee_sol
            /\ race'.winner = None

\* C17: there is no refund or timeout path: from a race that is Waiting, or
\* Active with at least one result slot empty, no step lowers the PDA's
\* balance or escrow_amount, and as long as the missing result is not
\* submitted the race stays Active with escrow_amount = 2 x entry_fee_sol.
C17_NoRefundPath == [][C17_LockedStep]_vars

C17_Witness ==
    /\ race.initialized
    /\ race.status = Active
    /\ race.player1_result.is_some
    /\ ~race.player2_result.is_some
    /\ P1 # P2
    /\ last.op = "claim_prize"
    /\ last.signer = P1
    /\ last.err = InvalidRaceStatus
    /\ race.escrow_amount = 2 * Fee
    /\ Fee > 0

\* C18: join_race never returns Player2AlreadySet: player2 is absent exactly
\* when status is Waiting, so a join_race on a race that has a player2 is
\* stopped by the status check and fails with InvalidRaceStatus.
C18_Player2AlreadySetDead ==
    /\ last.err # Player2AlreadySet
    /\ race.initialized => (race.player2 = None <=> race.status = Waiting)
    /\ (last.op = "join_race" /\ last.pre.initialized /\ last.pre.player2.is_some) =>
          last.err = InvalidRaceStatus

C18_Witness ==
    /\ last.op = "join_race"
    /\ last.pre.initialized
    /\ last.pre.player2.is_some
    /\ last.pre.status = Settled
    /\ last.err = InvalidRaceStatus

\* the race was created and joined by one identity
SelfJoined(r) == r.initialized /\ r.player2 = Some(r.player1)

\* C19: join_race accepts the creator as player2, and a race created and
\* joined by one identity is never settled: every submit_result of that
\* identity goes to player1's slot, player2_result stays absent, its second
\* submit_result fails with ResultAlreadySubmitted, settle_race fails with
\* ResultsNotComplete, and the 2 x entry_fee_sol stay in the PDA.
C19_SelfJoinLocksEscrow ==
    /\ (/\ last.op = "join_race"
        /\ last.pre.initialized
        /\ last.pre.status = Waiting
        /\ last.signer = last.pre.player1
        /\ last.preLam[last.signer] >= last.pre.entry_fee_sol) =>
          /\ last.err = Ok
          /\ SelfJoined(race)
    /\ SelfJoined(race) =>
          /\ race.player2_result = None
          /\ race.status = Active
          /\ race.winner = None
          /\ race.escrow_amount = 2 * Fee
          /\ lamports[RacePda] = 2 * Fee
          /\ paidOut = 0
          /\ LogOf("settle_race") = {}
          /\ LogOf("claim_prize") = {}
    /\ (SelfJoined(last.pre) /\ last.op = "settle_race") =>
          last.err = ResultsNotComplete
    /\ (SelfJoined(last.pre) /\ last.op = "submit_result" /\ last.signer = last.pre.player1) =>
          /\ last.pre.player1_result.is_some => last.err = ResultAlreadySubmitted
          /\ ~last.pre.player1_result.is_some =>
                last.err = Ok /\ race.player1_result.is_some

C19_Witness ==
    /\ SelfJoined(last.pre)
    /\ last.op = "submit_result"
    /\ last.signer = P1
    /\ last.err = ResultAlreadySubmitted
    /\ race.player2_result = None
    /\ Fee > 0
    /\ lamports[RacePda] = 2 * Fee

\* a settle_race that succeeds, and a claim_prize that succeeds
SettleOk ==
    \E p \in Players :
      /\ Loaded(race, lamports, settle_race(race, lamports, p)).err = Ok
      /\ Settle(p)

ClaimOk ==
    \E p \in Players :
      /\ Loaded(race, lamports, claim_prize(race, lamports, p)).err = Ok
      /\ Claim(p)

\* every participant keeps trying to submit, somebody keeps trying to settle,
\* the winner keeps trying to claim; all other calls may come in between
Fairness ==
    /\ \A p \in Players : WF_vars(SubmitOk(p))
    /\ WF_vars(SettleOk)
    /\ WF_vars(ClaimOk)

SpecFair == Init /\ [][Next]_vars /\ Fairness

\* the race is over and paid out
PaidOut ==
    /\ race.initialized
    /\ race.status = Settled
    /\ race.winner \in {Some(P1), Some(P2)}
    /\ race.escrow_amount = 0

\* C20: with two distinct participants, once the race is Active and each
\* participant's submit_result, settle_race and the winner's claim_prize are
\* taken whenever they stay possible (weak fairness), the race reaches
\* status Settled with player1 or player2 as winner and escrow_amount = 0,
\* whatever other calls are made in between.
C20_EventuallyPaidOut ==
    (race.initialized /\ race.status = Active /\ P1 # P2) ~> PaidOut

C20_Witness ==
    /\ PaidOut
    /\ P1 # P2
    /\ Fee > 0
    /\ race.winner = Some(P2)
    /\ claims = 1
    /\ lamports[P2] = initial[P2] + Fee
    /\ last.op = "create_race"
    /\ last.err = AccountInUse
====
